---- MODULE Spec2Model ----
(***************************************************************************)
(* A model of cfx-cli's resource-archive decoder: the bounds-checked byte  *)
(* cursor FMemoryArchive, the dual-address reader FResourceArchive, the    *)
(* page-flags codec ResourceChunkFlags and the unpack pipeline             *)
(* handle_unpack_command.                                                  *)
(*                                                                         *)
(* Number representation.  The model's integers are narrower than u64, so  *)
(*  - a u64 is held as the integer congruent to it modulo 2^64 in the      *)
(*    window (-2^31, 2^31): 0, 1, 2, ... are themselves and -1 is          *)
(*    u64::MAX = 2^64 - 1.  U64Add is the wrapping sum with its carry and  *)
(*    U64Gt / U64Min compare as unsigned numbers;                          *)
(*  - every size ResourceChunkFlags computes is 0x200 shifted, multiplied  *)
(*    and summed, hence a multiple of 0x200: a u32 size is held as its     *)
(*    quotient by PAGE = 0x200, and wrapping at 2^32 bytes is wrapping at  *)
(*    2^23 pages (U32_PAGES).                                              *)
(***************************************************************************)
EXTENDS Integers, Sequences, FiniteSets, TLC

VARIABLES
    overflow_checks,  \* the build profile: TRUE = debug (overflow panics), FALSE = release (wraps)
    archive,          \* an FMemoryArchive under test
    m_last,           \* the last call made on `archive` and what it returned
    resource,         \* an FResourceArchive under test
    r_last,           \* the last call made on `resource` and what it returned
    value,            \* a flags word handed to ResourceChunkFlags::new
    layout,           \* what ResourceChunkFlags computed from `value`
    file,             \* the input of handle_unpack_command: [kind, bytes]
    pc,               \* the pipeline's position
    trace,            \* the stages the pipeline entered, in order
    err,              \* the error the pipeline returned ("none" while it runs)
    up                \* the locals of handle_unpack_command

vars == <<overflow_checks, archive, m_last, resource, r_last, value, layout,
          file, pc, trace, err, up>>

memVars == <<archive, m_last>>
resVars == <<resource, r_last>>
flagVars == <<value, layout>>
unpackVars == <<file, pc, trace, err, up>>

----------------------------------------------------------------------------
(* Bounds of the model *)

MaxBufLen == 5      \* longest buffer of the FMemoryArchive under test
MaxRead == 6        \* longest destination handed to FMemoryArchive::read_bytes
MaxPos == 7         \* largest small position handed to FMemoryArchive::set_position

----------------------------------------------------------------------------
(* Helpers *)

Min(a, b) == IF a <= b THEN a ELSE b

Range(seq) == {seq[i] : i \in 1..Len(seq)}

\* the one element of a singleton; {e(x) : x \in {v}} names the value v as x
Only(S) == CHOOSE x \in S : TRUE

Zeros(n) == [i \in 1..n |-> 0]

\* a > b for two u64 in the window representation
U64Gt(a, b) == IF (a < 0) = (b < 0) THEN a > b ELSE a < 0

U64Min(a, b) == IF U64Gt(a, b) THEN b ELSE a

\* a + b on u64, b small and non-negative: the wrapped sum and whether it wrapped
U64Add(a, b) == [sum |-> a + b, carry |-> a < 0 /\ a + b >= 0]

\* the first k bytes of `buffer` replaced by `bytes`
Fill(buffer, bytes) ==
    [i \in 1..Len(buffer) |-> IF i <= Len(bytes) THEN bytes[i] ELSE buffer[i]]

\* little-endian decoding (byteorder's read_u32::<LittleEndian>, from_le_bytes)
RECURSIVE FromLeBytes(_)
FromLeBytes(bytes) ==
    IF bytes = <<>> THEN 0
    ELSE LET rest == FromLeBytes(Tail(bytes))
         IN IF rest = 0 THEN Head(bytes) ELSE Head(bytes) + 256 * rest

RECURSIVE ToLeBytes(_, _)
ToLeBytes(n, width) ==
    IF width = 0 THEN <<>> ELSE <<n % 256>> \o ToLeBytes(n \div 256, width - 1)

----------------------------------------------------------------------------
(* std::io::Cursor<Data>, as FMemoryArchive and FResourceArchive use it *)

\* Cursor::new
Cursor_new(data) == [data |-> data, position |-> 0]

\* Cursor::read: copies min(buffer.len(), remaining) bytes from min(position, len)
\* and advances the position by the bytes copied; it never fails
Cursor_read(cursor, buffer) ==
    LET len == Len(cursor.data)
        start == U64Min(cursor.position, len)
        n == Min(Len(buffer), len - start)
    IN [read |-> n,
        buffer |-> Fill(buffer, SubSeq(cursor.data, start + 1, start + n)),
        cursor |-> [cursor EXCEPT !.position = cursor.position + n]]

----------------------------------------------------------------------------
(* FMemoryArchive *)

FMemoryArchive_new(data) == [len |-> Len(data), cursor |-> Cursor_new(data)]

\* a read_bytes that moves the cursor to the end of the read before checking it
FMemoryArchive_read_bytes_AdvanceFirst(self, buffer) ==
    LET total == U64Add(self.cursor.position, Len(buffer))
        moved == [self EXCEPT !.cursor.position = total.sum]
    IN IF U64Gt(total.sum, self.len)
       THEN [status |-> "err", kind |-> "bounds", read |-> 0, buffer |-> buffer,
             self |-> moved]
       ELSE LET r == Cursor_read(self.cursor, buffer)
            IN [status |-> "ok", kind |-> "none", read |-> r.read,
                buffer |-> r.buffer, self |-> [self EXCEPT !.cursor = r.cursor]]

\* a read_bytes without its bounds check: Cursor::read alone
FMemoryArchive_read_bytes_Unchecked(self, buffer) ==
    LET r == Cursor_read(self.cursor, buffer)
    IN [status |-> "ok", kind |-> "none", read |-> r.read,
        buffer |-> r.buffer, self |-> [self EXCEPT !.cursor = r.cursor]]

\* FMemoryArchive::read_bytes.  `position + buffer_len` is a usize sum: it
\* panics under overflow checks and wraps without them.
FMemoryArchive_read_bytes(self, buffer) ==
    LET buffer_len == Len(buffer)
        total == U64Add(self.cursor.position, buffer_len)
        total_len == total.sum
    IN IF total.carry /\ overflow_checks
       THEN [status |-> "panic", kind |-> "panic", read |-> 0, buffer |-> buffer,
             self |-> self]
       ELSE IF U64Gt(total_len, self.len)
       THEN [status |-> "err", kind |-> "bounds", read |-> 0, buffer |-> buffer,
             self |-> self]
       ELSE LET r == Cursor_read(self.cursor, buffer)
            IN [status |-> "ok", kind |-> "none", read |-> r.read,
                buffer |-> r.buffer, self |-> [self EXCEPT !.cursor = r.cursor]]

\* FMemoryArchive::set_position
FMemoryArchive_set_position(self, pos) == [self EXCEPT !.cursor.position = pos]

\* FArchiveExt::read_uint (read_int reads the same four bytes) over an FMemoryArchive
FMemoryArchive_read_uint(self) ==
    LET r == FMemoryArchive_read_bytes(self, Zeros(4))
    IN IF r.status # "ok"
       THEN [status |-> r.status, kind |-> r.kind, result |-> 0, self |-> r.self]
       ELSE [status |-> "ok", kind |-> "none", result |-> FromLeBytes(r.buffer),
             self |-> r.self]

----------------------------------------------------------------------------
(* The FMemoryArchive under test: any sequence of read_bytes and set_position *)

MemBuffers == {[i \in 1..n |-> i] : n \in 0..MaxBufLen} \cup {<<69, 0, 0, 0>>, Zeros(6)}

\* positions handed to set_position: small ones, and u64::MAX and u64::MAX - 1
MemPositions == (0..MaxPos) \cup {-1, -2}

IdleMem ==
    /\ archive = FMemoryArchive_new(<<>>)
    /\ m_last = [op |-> "idle"]

IdleRes ==
    /\ resource = <<>>
    /\ r_last = [op |-> "idle"]

IdleFlags ==
    /\ value = 0
    /\ layout = [status |-> "idle"]

IdleUnpack ==
    /\ file = [kind |-> "missing", bytes |-> <<>>]
    /\ pc = "idle"
    /\ trace = <<>>
    /\ err = "none"
    /\ up = <<>>

MemInit ==
    /\ overflow_checks \in BOOLEAN
    /\ \E data \in MemBuffers : archive = FMemoryArchive_new(data)
    /\ m_last = [op |-> "new", p |-> 0, want |-> 0, status |-> "ok", read |-> 0,
                 buffer |-> <<>>]
    /\ IdleRes /\ IdleFlags /\ IdleUnpack

MemRead(n) ==
    /\ m_last.status # "panic"
    /\ LET r == FMemoryArchive_read_bytes(archive, Zeros(n))
       IN /\ archive' = r.self
          /\ m_last' = [op |-> "read_bytes", p |-> archive.cursor.position,
                        want |-> n, status |-> r.status, read |-> r.read,
                        buffer |-> r.buffer]
    /\ UNCHANGED <<overflow_checks, resVars, flagVars, unpackVars>>

MemSetPosition(p) ==
    /\ m_last.status # "panic"
    /\ archive' = FMemoryArchive_set_position(archive, p)
    /\ m_last' = [op |-> "set_position", p |-> archive.cursor.position,
                  want |-> 0, status |-> "ok", read |-> 0, buffer |-> <<>>]
    /\ UNCHANGED <<overflow_checks, resVars, flagVars, unpackVars>>

MemNext ==
    \/ \E n \in 0..MaxRead : MemRead(n)
    \/ \E p \in MemPositions : MemSetPosition(p)

SpecMem == MemInit /\ [][MemNext]_vars

\* the buffer of the archive under test
MemData == archive.cursor.data

\* C1: a read_bytes at position p with a destination of length L succeeds
\* exactly when p + L <= len(B); on success it returns L, the destination holds
\* B[p .. p+L) and the position is p + L; on failure the position is still p.
C1_ReadBytesContract ==
    m_last.op = "read_bytes" =>
        LET p == m_last.p
            L == m_last.want
            fits == p >= 0 /\ p + L <= Len(MemData)
        IN /\ (m_last.status = "ok") <=> fits
           /\ m_last.status = "ok" =>
                /\ m_last.read = L
                /\ m_last.buffer = SubSeq(MemData, p + 1, p + L)
                /\ archive.cursor.position = p + L
           /\ m_last.status # "ok" => archive.cursor.position = p

----------------------------------------------------------------------------
(* FResourceArchive *)

VIRTUAL_BASE == \H50000000
PHYSICAL_BASE == \H60000000

\* a & b, a & !b and a | b on the bits of two naturals
RECURSIVE BitAnd(_, _)
BitAnd(a, b) ==
    IF a = 0 \/ b = 0 THEN 0
    ELSE (a % 2) * (b % 2) + 2 * BitAnd(a \div 2, b \div 2)

RECURSIVE BitAndNot(_, _)
BitAndNot(a, b) ==
    IF a = 0 THEN 0
    ELSE (a % 2) * (1 - (b % 2)) + 2 * BitAndNot(a \div 2, b \div 2)

RECURSIVE BitOr(_, _)
BitOr(a, b) ==
    IF a = 0 THEN b
    ELSE IF b = 0 THEN a
    ELSE (IF a % 2 = 1 \/ b % 2 = 1 THEN 1 ELSE 0) + 2 * BitOr(a \div 2, b \div 2)

FResourceArchive_new(virtual_data, physical_data) ==
    [virtual_stream |-> Cursor_new(virtual_data),
     physical_stream |-> Cursor_new(physical_data),
     pos |-> 0]

\* what read_bytes does once it has selected `stream` and its base_position:
\* cursor.set_position(at), cursor.read(buffer), pos = pos | base_position
ResServe(self, buffer, stream, base_position, at) ==
    LET cursor == IF stream = "virtual" THEN self.virtual_stream
                  ELSE self.physical_stream
        r == Cursor_read([cursor EXCEPT !.position = at], buffer)
        served == IF stream = "virtual"
                  THEN [self EXCEPT !.virtual_stream = r.cursor]
                  ELSE [self EXCEPT !.physical_stream = r.cursor]
    IN [status |-> "ok", kind |-> "none", read |-> r.read, buffer |-> r.buffer,
        stream |-> stream,
        self |-> [served EXCEPT !.pos = BitOr(self.pos, base_position)]]

ResInvalid(self, buffer) ==
    [status |-> "err", kind |-> "invalid_position", read |-> 0, buffer |-> buffer,
     stream |-> "none", self |-> self]

\* a read_bytes that positions the cursor at the whole address, markers included
FResourceArchive_read_bytes_NoMask(self, buffer) ==
    IF BitAnd(self.pos, VIRTUAL_BASE) = VIRTUAL_BASE
    THEN ResServe(self, buffer, "virtual", VIRTUAL_BASE, self.pos)
    ELSE IF BitAnd(self.pos, PHYSICAL_BASE) = PHYSICAL_BASE
    THEN ResServe(self, buffer, "physical", PHYSICAL_BASE, self.pos)
    ELSE ResInvalid(self, buffer)

\* a read_bytes that takes any bit of a marker for the marker
FResourceArchive_read_bytes_AnyBit(self, buffer) ==
    IF BitAnd(self.pos, VIRTUAL_BASE) # 0
    THEN ResServe(self, buffer, "virtual", VIRTUAL_BASE,
                  BitAndNot(self.pos, VIRTUAL_BASE))
    ELSE IF BitAnd(self.pos, PHYSICAL_BASE) # 0
    THEN ResServe(self, buffer, "physical", PHYSICAL_BASE,
                  BitAndNot(self.pos, PHYSICAL_BASE))
    ELSE ResInvalid(self, buffer)

\* a read_bytes that advances the stored address by the bytes it read
FResourceArchive_read_bytes_Advance(self, buffer) ==
    LET r == IF BitAnd(self.pos, VIRTUAL_BASE) = VIRTUAL_BASE
             THEN ResServe(self, buffer, "virtual", VIRTUAL_BASE,
                           BitAndNot(self.pos, VIRTUAL_BASE))
             ELSE IF BitAnd(self.pos, PHYSICAL_BASE) = PHYSICAL_BASE
             THEN ResServe(self, buffer, "physical", PHYSICAL_BASE,
                           BitAndNot(self.pos, PHYSICAL_BASE))
             ELSE ResInvalid(self, buffer)
    IN [r EXCEPT !.self.pos = self.pos + r.read]

\* FResourceArchive::read_bytes
FResourceArchive_read_bytes(self, buffer) ==
    IF BitAnd(self.pos, VIRTUAL_BASE) = VIRTUAL_BASE
    THEN ResServe(self, buffer, "virtual", VIRTUAL_BASE,
                  BitAndNot(self.pos, VIRTUAL_BASE))
    ELSE IF BitAnd(self.pos, PHYSICAL_BASE) = PHYSICAL_BASE
    THEN ResServe(self, buffer, "physical", PHYSICAL_BASE,
                  BitAndNot(self.pos, PHYSICAL_BASE))
    ELSE ResInvalid(self, buffer)

\* FResourceArchive::set_position
FResourceArchive_set_position(self, pos) == [self EXCEPT !.pos = pos]

\* FResourceArchive::read_ulong (width 8) and FArchiveExt::read_uint / read_int
\* (width 4): read_bytes(&mut buffer)?, then the count it returned is dropped
\* and the whole scratch buffer decoded
FResourceArchive_read_le(self, width) ==
    LET r == FResourceArchive_read_bytes(self, Zeros(width))
    IN [status |-> r.status, kind |-> r.kind, read |-> r.read, buffer |-> r.buffer,
        stream |-> r.stream, self |-> r.self,
        result |-> IF r.status = "ok" THEN FromLeBytes(r.buffer) ELSE 0]

----------------------------------------------------------------------------
(* The FResourceArchive under test: any sequence of set_position, read_bytes,
   read_ulong and read_uint *)

MaxResRead == 3     \* longest destination handed to FResourceArchive::read_bytes
MaxStreak == 2      \* consecutive reads counted since the last set_position

\* the two regions: prefixes of two images that differ wherever either is non-zero
VirtualImage(n) ==
    [i \in 1..n |-> IF i <= 3 THEN i ELSE IF i \in {17, 18} THEN 80 + (i - 16) ELSE 0]

PhysicalImage(n) ==
    [i \in 1..n |-> IF i <= 3 THEN 16 + i ELSE IF i \in {33, 34} THEN 96 + (i - 32) ELSE 0]

VirtualLens == {2, 18}
PhysicalLens == {4, 34}

\* stored addresses: each marker with offsets into its region, both markers at
\* once, single marker bits, no marker, and the spec's 0x1234
ResAddresses ==
    {\H50000000, \H50000002, \H50000010,
     \H60000000, \H60000020,
     \H70000000,
     \H10000000, \H20000000, \H30000000, \H40000010,
     0, \H1234}

ReadOps == {"read_bytes", "read_ulong", "read_uint"}

ResInit ==
    /\ overflow_checks = FALSE
    /\ \E vl \in VirtualLens, pl \in PhysicalLens :
          resource = FResourceArchive_new(VirtualImage(vl), PhysicalImage(pl))
    /\ r_last = [op |-> "new", arg |-> 0, want |-> 0, status |-> "ok",
                 kind |-> "none", read |-> 0, buffer |-> <<>>, stream |-> "none",
                 result |-> 0, streak |-> 0]
    /\ IdleMem /\ IdleFlags /\ IdleUnpack

\* the record of a read: what was asked and what it returned
ResReadRecord(op, want, r, result) ==
    [op |-> op, arg |-> 0, want |-> want, status |-> r.status,
     kind |-> r.kind, read |-> r.read, buffer |-> r.buffer, stream |-> r.stream,
     result |-> result,
     streak |-> Min(r_last.streak + 1, MaxStreak)]

ResReadBytes(n) ==
    /\ LET r == FResourceArchive_read_bytes(resource, Zeros(n))
       IN /\ resource' = r.self
          /\ r_last' = ResReadRecord("read_bytes", n, r, 0)
    /\ UNCHANGED <<overflow_checks, memVars, flagVars, unpackVars>>

ResReadULong ==
    /\ LET r == FResourceArchive_read_le(resource, 8)
       IN /\ resource' = r.self
          /\ r_last' = ResReadRecord("read_ulong", 8, r, r.result)
    /\ UNCHANGED <<overflow_checks, memVars, flagVars, unpackVars>>

ResReadUInt ==
    /\ LET r == FResourceArchive_read_le(resource, 4)
       IN /\ resource' = r.self
          /\ r_last' = ResReadRecord("read_uint", 4, r, r.result)
    /\ UNCHANGED <<overflow_checks, memVars, flagVars, unpackVars>>

ResSetPosition(a) ==
    /\ resource' = FResourceArchive_set_position(resource, a)
    /\ r_last' = [op |-> "set_position", arg |-> a, want |-> 0,
                  status |-> "ok", kind |-> "none", read |-> 0, buffer |-> <<>>,
                  stream |-> "none", result |-> 0, streak |-> 0]
    /\ UNCHANGED <<overflow_checks, memVars, flagVars, unpackVars>>

ResNext ==
    \/ \E n \in 0..MaxResRead : ResReadBytes(n)
    \/ ResReadULong
    \/ ResReadUInt
    \/ \E a \in ResAddresses : ResSetPosition(a)

SpecRes == ResInit /\ [][ResNext]_vars

\* bit k of a
Bit(a, k) == (a \div (2 ^ k)) % 2 = 1

\* the marker tests of the claims, stated on the bits: 0x5000_0000 is bits 30
\* and 28, 0x6000_0000 is bits 30 and 29
HasVirtualMarker(a) == Bit(a, 30) /\ Bit(a, 28)
HasPhysicalMarker(a) == Bit(a, 30) /\ Bit(a, 29)

\* this step is a read on the FResourceArchive
ResReadStep == r_last'.op \in ReadOps

\* this step left both cursors where they were
ResCursorsUnmoved ==
    /\ resource'.virtual_stream = resource.virtual_stream
    /\ resource'.physical_stream = resource.physical_stream

\* this step's read was serviced by `stream` positioned at offset `off`: it
\* returned the region's bytes from `off` on and left that cursor behind them
ResServedBy(stream, off) ==
    LET data == IF stream = "virtual" THEN resource.virtual_stream.data
                ELSE resource.physical_stream.data
        n == r_last'.want
        avail == IF off >= Len(data) THEN 0 ELSE Len(data) - off
        k == Min(n, avail)
    IN /\ r_last'.status = "ok"
       /\ r_last'.stream = stream
       /\ r_last'.read = k
       /\ r_last'.buffer = SubSeq(data, off + 1, off + k) \o Zeros(n - k)
       /\ IF stream = "virtual"
          THEN /\ resource'.virtual_stream.position = off + k
               /\ resource'.physical_stream = resource.physical_stream
          ELSE /\ resource'.physical_stream.position = off + k
               /\ resource'.virtual_stream = resource.virtual_stream

ResRejected ==
    /\ r_last'.status = "err"
    /\ r_last'.kind = "invalid_position"
    /\ ResCursorsUnmoved

\* C4: a read at stored address a is serviced by the virtual cursor at
\* a & !0x5000_0000 when (a & 0x5000_0000) == 0x5000_0000, otherwise by the
\* physical cursor at a & !0x6000_0000 when (a & 0x6000_0000) == 0x6000_0000,
\* and otherwise fails with an invalid-address error, moving neither cursor.
C4_Routing ==
    [][ResReadStep =>
         IF HasVirtualMarker(resource.pos)
         THEN ResServedBy("virtual", resource.pos - VIRTUAL_BASE)
         ELSE IF HasPhysicalMarker(resource.pos)
         THEN ResServedBy("physical", resource.pos - PHYSICAL_BASE)
         ELSE ResRejected]_vars

\* 0x5000_0010 was read from the virtual region at 0x10
C4_Witness ==
    /\ r_last.op \in ReadOps
    /\ resource.pos = \H50000010
    /\ r_last.stream = "virtual"
    /\ r_last.read = 2
    /\ r_last.buffer[1] = 81
    /\ resource.virtual_stream.position = 18

\* C5 as claimed: a read at an address in which both markers are set, or
\* neither, returns an error and services no cursor.
C5_ExactlyOneMarker ==
    [][(ResReadStep
        /\ HasVirtualMarker(resource.pos) = HasPhysicalMarker(resource.pos))
         => ResRejected]_vars

\* C5 as amended: a read at an address in which neither marker is set returns
\* an error and services no cursor; a read at an address in which both are set
\* is not rejected, the virtual cursor services it at a & !0x5000_0000.
C5_AtLeastOneMarker ==
    [][ResReadStep =>
         /\ (~HasVirtualMarker(resource.pos) /\ ~HasPhysicalMarker(resource.pos))
              => ResRejected
         /\ (HasVirtualMarker(resource.pos) /\ HasPhysicalMarker(resource.pos))
              => ResServedBy("virtual", resource.pos - VIRTUAL_BASE)]_vars

\* a read at 0x7000_0000 was serviced by the virtual cursor at 0x2000_0000
C5_Witness ==
    /\ r_last.op \in ReadOps
    /\ resource.pos = \H70000000
    /\ r_last.status = "ok"
    /\ r_last.stream = "virtual"
    /\ resource.virtual_stream.position = \H20000000

\* the offset into the selected region and that region's length, for an
\* address that carries a marker
ResOffset(a) == IF HasVirtualMarker(a) THEN a - VIRTUAL_BASE ELSE a - PHYSICAL_BASE
ResRegionLen(a) ==
    IF HasVirtualMarker(a) THEN Len(resource.virtual_stream.data)
    ELSE Len(resource.physical_stream.data)

\* C8: a read of n bytes at region offset o with o + n beyond the selected
\* region's length fails with a bounds error; read_ulong and read_uint never
\* return a value decoded from fewer bytes than their width.
C8_BoundsPropagated ==
    [][(ResReadStep
        /\ (HasVirtualMarker(resource.pos) \/ HasPhysicalMarker(resource.pos)))
         => /\ ResOffset(resource.pos) + r_last'.want > ResRegionLen(resource.pos)
                 => (r_last'.status = "err" /\ r_last'.kind = "bounds")
            /\ r_last'.status = "ok" => r_last'.read = r_last'.want]_vars

\* C10: a read never changes the stored address, so two consecutive reads of
\* the same length are serviced by the same cursor at the same offset and
\* return the same bytes; only set_position changes the stored address, and
\* it stores its argument verbatim without failing.
C10_AddressSticky ==
    [][/\ ResReadStep => resource'.pos = resource.pos
       /\ (ResReadStep /\ r_last.op \in ReadOps /\ r_last'.want = r_last.want)
            => /\ r_last'.stream = r_last.stream
               /\ r_last'.status = r_last.status
               /\ r_last'.read = r_last.read
               /\ r_last'.buffer = r_last.buffer
               /\ ResCursorsUnmoved
       /\ resource'.pos # resource.pos => r_last'.op = "set_position"
       /\ r_last'.op = "set_position"
            => /\ r_last'.status = "ok"
               /\ resource'.pos = r_last'.arg
               /\ ResCursorsUnmoved]_vars

\* a second read in a row, with no set_position between, that returned bytes
C10_Witness ==
    /\ r_last.op \in ReadOps
    /\ r_last.streak >= 2
    /\ r_last.read > 0

----------------------------------------------------------------------------
(* ResourceChunkFlags.  Sizes are u32 and are held in pages of 0x200 bytes:
   the u32 range 0 .. 2^32 - 1 of sizes is the page range 0 .. U32_PAGES - 1. *)

PAGE == 512
U32_PAGES == 2 ^ (32 - 9)

BUCKETS_CAPACITY == <<1, 3, 15, 63, 127, 1, 1, 1, 1>>
BUCKETS_SHIFTS == <<4, 5, 7, 11, 17, 24, 25, 26, 27>>

\* x << n on a u32 size: the bits shifted past bit 31 are dropped, in every build
U32Shl(x, n) == (x * (2 ^ n)) % U32_PAGES

\* a * b and a + b on u32 sizes: the wrapped result and whether it overflowed
U32Mul(a, b) == [val |-> (a * b) % U32_PAGES, overflow |-> a * b >= U32_PAGES]
U32Add(a, b) == [val |-> (a + b) % U32_PAGES, overflow |-> a + b >= U32_PAGES]

\* ResourceChunkFlags::new: base_size = 0x200 << base_shift, that is 1 << base_shift pages
ResourceChunkFlags_new(v) ==
    LET base_shift == BitAnd(v, 15)
    IN [value |-> v,
        type_val |-> BitAnd(v \div (2 ^ 28), 15),
        base_shift |-> base_shift,
        base_size |-> U32Shl(1, base_shift)]

\* get_chunk_sizes: base_size << 8, << 7, ..., << 0
get_chunk_sizes(self) == [i \in 1..9 |-> U32Shl(self.base_size, 9 - i)]

\* get_buckets_count: (value >> BUCKETS_SHIFTS[i]) & BUCKETS_CAPACITY[i]
get_buckets_count(self) ==
    [i \in 1..9 |-> BitAnd(self.value \div (2 ^ BUCKETS_SHIFTS[i]), BUCKETS_CAPACITY[i])]

\* get_buckets_sizes: the nine products, and the first one that overflows (0: none)
get_buckets_sizes(self) ==
    LET chunk_sizes == get_chunk_sizes(self)
        buckets_count == get_buckets_count(self)
        product == [i \in 1..9 |-> U32Mul(chunk_sizes[i], buckets_count[i])]
        over == {i \in 1..9 : product[i].overflow}
    IN [sizes |-> [i \in 1..9 |-> product[i].val],
        overflow |-> over # {}]

\* the sum buckets_sizes[0] + ... + buckets_sizes[8], added left to right
RECURSIVE SumLeft(_, _)
SumLeft(sizes, n) ==
    IF n = 1 THEN [val |-> sizes[1], overflow |-> FALSE]
    ELSE Only({[val |-> U32Add(head.val, sizes[n]).val,
                overflow |-> head.overflow \/ U32Add(head.val, sizes[n]).overflow] :
               head \in {SumLeft(sizes, n - 1)}})

\* get_size: an overflowing product or sum panics under overflow checks and
\* wraps without them
get_size(self) ==
    Only({Only({IF overflow_checks /\ (buckets_sizes.overflow \/ total.overflow)
                THEN [status |-> "panic", size |-> 0]
                ELSE [status |-> "ok", size |-> total.val] :
                total \in {SumLeft(buckets_sizes.sizes, 9)}}) :
          buckets_sizes \in {get_buckets_sizes(self)}})

----------------------------------------------------------------------------
(* ResourceChunkFlags applied to a flags word *)

\* the low four bits of the flags words tried
BaseShifts == {0, 1, 14, 15}

\* bits 4 .. 27 of the flags words tried (as value >> 4): no bucket, each
\* bucket alone at its lowest and at its highest count, and every bucket full
BucketBits ==
    {0, 1, 2, 6, 8, 120, 128, 8064, 8192, 1040384,
     1048576, 2097152, 4194304, 8388608, 16777215}

\* bits 28 .. 30 of the flags words tried (type_val)
TypeBits == {0, 7}

FlagWords == {s + 16 * b + (2 ^ 28) * t : s \in BaseShifts, b \in BucketBits, t \in TypeBits}

FlagsInit ==
    /\ overflow_checks \in BOOLEAN
    /\ value \in FlagWords
    /\ layout = [status |-> "new"]
    /\ IdleMem /\ IdleRes /\ IdleUnpack

\* ResourceChunkFlags::new(value) followed by get_size(), as the pipeline calls them
FlagsDecode ==
    /\ layout.status = "new"
    /\ LET self == ResourceChunkFlags_new(value)
           total == get_size(self)
       IN layout' = [status |-> total.status,
                     base_shift |-> self.base_shift,
                     base_size |-> self.base_size,
                     chunk_sizes |-> get_chunk_sizes(self),
                     buckets_count |-> get_buckets_count(self),
                     buckets_sizes |-> get_buckets_sizes(self).sizes,
                     size |-> total.size]
    /\ UNCHANGED <<overflow_checks, value, memVars, resVars, unpackVars>>

FlagsNext == FlagsDecode

SpecFlags == FlagsInit /\ [][FlagsNext]_vars

\* the sum of a sequence of naturals
RECURSIVE Sum(_)
Sum(seq) == IF seq = <<>> THEN 0 ELSE Head(seq) + Sum(Tail(seq))

\* C3: every flags word decodes without error or overflow to the exact
\* arithmetic values (in pages of 0x200 bytes): base_size = 2^(flags & 0xF),
\* chunk_size[i] = base_size * 2^(8-i), bucket_count[i] = (flags >> shift[i]) &
\* mask[i], bucket_size[i] = chunk_size[i] * bucket_count[i], and total_size
\* the sum of the nine bucket sizes (0 when flags = 0).
C3_ExactArithmetic ==
    layout.status \notin {"new", "idle"} =>
        /\ layout.status = "ok"
        /\ layout.base_size = 2 ^ (value % 16)
        /\ \A i \in 0..8 :
              /\ layout.chunk_sizes[i + 1] = layout.base_size * (2 ^ (8 - i))
              /\ layout.buckets_count[i + 1] =
                    (value \div (2 ^ BUCKETS_SHIFTS[i + 1])) % (BUCKETS_CAPACITY[i + 1] + 1)
              /\ layout.buckets_sizes[i + 1] =
                    layout.chunk_sizes[i + 1] * layout.buckets_count[i + 1]
        /\ layout.size = Sum(layout.buckets_sizes)
        /\ value = 0 => layout.size = 0

----------------------------------------------------------------------------
(* handle_unpack_command *)

MAGIC == \H37435352

\* n consecutive read_uint()? calls: the values read, or the first error
RECURSIVE ReadUInts(_, _)
ReadUInts(self, n) ==
    IF n = 0
    THEN [status |-> "ok", kind |-> "none", self |-> self, results |-> <<>>]
    ELSE Only({IF prev.status # "ok" THEN prev
               ELSE Only({[status |-> r.status, kind |-> r.kind, self |-> r.self,
                           results |-> IF r.status = "ok"
                                       THEN Append(prev.results, r.result)
                                       ELSE prev.results] :
                          r \in {FMemoryArchive_read_uint(prev.self)}}) :
               prev \in {ReadUInts(self, n - 1)}})

\* ArchiveHeader::from: four reads in order, the version masked to its low byte
ArchiveHeader_from(a0) ==
    Only({[status |-> reads.status, kind |-> reads.kind, self |-> reads.self,
           header |-> IF reads.status # "ok" THEN <<>>
                      ELSE [flags |-> reads.results[1],
                            virtual_page_flags |-> reads.results[2],
                            physical_page_flags |-> reads.results[3],
                            version |-> reads.results[4] % 256]] :
          reads \in {ReadUInts(a0, 4)}})

\* read_ulong on the FMemoryArchive over the decompressed physical data: eight
\* bytes through read_bytes, decoded little-endian
FMemoryArchive_read_ulong(self) ==
    LET r == FMemoryArchive_read_bytes(self, Zeros(8))
    IN IF r.status # "ok"
       THEN [status |-> r.status, kind |-> r.kind, result |-> 0, self |-> r.self]
       ELSE [status |-> "ok", kind |-> "none", result |-> FromLeBytes(r.buffer),
             self |-> r.self]

\* deflate::deflate_bytes: it cannot fail; what it returns is opaque to the
\* pipeline, which only reads sixteen bytes of it, so the model draws the
\* length of the output and fills it with a first byte and zeros
DeflateLens == {2, 15, 16, 24}
deflate_bytes(input) == {[i \in 1..n |-> IF i = 1 THEN 3 ELSE 0] : n \in DeflateLens}

\* a size in bytes, from a u32 size in pages (`get_size() as usize`)
SizeBytes(pages) == pages * PAGE

----------------------------------------------------------------------------
(* The pipeline under test *)

MaxSlack == 1       \* bytes tried beyond and short of each region boundary

\* the words tried as virtual_page_flags and physical_page_flags: an empty
\* region, one page of 0x200 bytes (bit 27), and a word whose second bucket
\* overflows u32 (base_shift 15, two chunks of 2^31 bytes)
PageFlagWords == {0, \H08000000, \H4F}

MagicWords == {MAGIC, MAGIC + 1, 0}

HeaderBytes(magic, flags, virtual_page_flags, physical_page_flags, version) ==
    ToLeBytes(magic, 4) \o ToLeBytes(flags, 4) \o ToLeBytes(virtual_page_flags, 4)
        \o ToLeBytes(physical_page_flags, 4) \o ToLeBytes(version, 4)

Headers ==
    {HeaderBytes(m, 0, v, p, 263) : m \in MagicWords, v \in PageFlagWords, p \in PageFlagWords}

\* bytes that follow the header: around no region, one region and two regions
TailLens == {t \in 0..(2 * PAGE + MaxSlack) :
                \E k \in 0..2 : t - k * PAGE \in (0 - MaxSlack)..MaxSlack}

UnpackFiles ==
    {[kind |-> "regular", bytes |-> SubSeq(h, 1, n)] : h \in Headers, n \in 0..19}
    \cup {[kind |-> "regular", bytes |-> h \o Zeros(t)] : h \in Headers, t \in TailLens}
    \cup {[kind |-> "missing", bytes |-> <<>>]}
    \cup {[kind |-> "unreadable", bytes |-> SubSeq(h, 1, n)] : h \in Headers, n \in {0, 8}}

NoLocals ==
    [archive |-> FMemoryArchive_new(<<>>), header |-> <<>>,
     virtual_size |-> 0, physical_size |-> 0, attempted |-> {},
     virtual_buffer |-> <<>>, physical_buffer |-> <<>>,
     virtual_data |-> <<>>, physical_data |-> <<>>,
     vft |-> 0, pages_info_pointer |-> 0]

UnpackInit ==
    /\ overflow_checks \in BOOLEAN
    /\ file \in UnpackFiles
    /\ pc = "start"
    /\ trace = <<>>
    /\ err = "none"
    /\ up = NoLocals
    /\ IdleMem /\ IdleRes /\ IdleFlags

Enter(stage) == trace' = Append(trace, stage)

Fail(kind) ==
    /\ pc' = "failed"
    /\ err' = kind

\* lines 119-129: the file must exist and be readable; it is read whole
UnpackOpen ==
    /\ pc = "start"
    /\ Enter("Open")
    /\ IF file.kind # "regular"
       THEN Fail("io") /\ UNCHANGED up
       ELSE /\ pc' = "opened"
            /\ up' = [up EXCEPT !.archive = FMemoryArchive_new(file.bytes)]
            /\ UNCHANGED err
    /\ UNCHANGED <<overflow_checks, file, memVars, resVars, flagVars>>

\* a magic check that reports the mismatch and carries on
UnpackMagicCheck_NoReturn ==
    /\ pc = "opened"
    /\ Enter("MagicCheck")
    /\ \E magic \in {FMemoryArchive_read_uint(up.archive)} :
          IF magic.status # "ok"
          THEN Fail(magic.kind) /\ UNCHANGED up
          ELSE /\ pc' = "magic_ok"
               /\ err' = IF magic.result # MAGIC THEN "format" ELSE err
               /\ up' = [up EXCEPT !.archive = magic.self]
    /\ UNCHANGED <<overflow_checks, file, memVars, resVars, flagVars>>

\* lines 130-133
UnpackMagicCheck ==
    /\ pc = "opened"
    /\ Enter("MagicCheck")
    /\ \E magic \in {FMemoryArchive_read_uint(up.archive)} :
          IF magic.status # "ok"
          THEN Fail(magic.kind) /\ UNCHANGED up
          ELSE IF magic.result # MAGIC
          THEN Fail("format") /\ UNCHANGED up
          ELSE /\ pc' = "magic_ok"
               /\ up' = [up EXCEPT !.archive = magic.self]
               /\ UNCHANGED err
    /\ UNCHANGED <<overflow_checks, file, memVars, resVars, flagVars>>

\* line 135
UnpackHeaderParse ==
    /\ pc = "magic_ok"
    /\ Enter("HeaderParse")
    /\ \E parsed \in {ArchiveHeader_from(up.archive)} :
          IF parsed.status # "ok"
          THEN Fail(parsed.kind) /\ UNCHANGED up
          ELSE /\ pc' = "header_ok"
               /\ up' = [up EXCEPT !.archive = parsed.self, !.header = parsed.header]
               /\ UNCHANGED err
    /\ UNCHANGED <<overflow_checks, file, memVars, resVars, flagVars>>

\* lines 138-144: both ResourceChunkFlags are built from virtual_page_flags
UnpackSize ==
    /\ pc = "header_ok"
    /\ Enter("Size")
    /\ \E virtual_flags \in {ResourceChunkFlags_new(up.header.virtual_page_flags)},
          physical_flags \in {ResourceChunkFlags_new(up.header.virtual_page_flags)} :
       \E virtual_size \in {get_size(virtual_flags)},
          physical_size \in {get_size(physical_flags)} :
          IF virtual_size.status # "ok" \/ physical_size.status # "ok"
          THEN Fail("panic") /\ UNCHANGED up
          ELSE /\ pc' = "sized"
               /\ up' = [up EXCEPT
                           !.virtual_size = SizeBytes(virtual_size.size),
                           !.physical_size = SizeBytes(physical_size.size),
                           !.virtual_buffer = Zeros(SizeBytes(virtual_size.size)),
                           !.physical_buffer = Zeros(SizeBytes(physical_size.size))]
               /\ UNCHANGED err
    /\ UNCHANGED <<overflow_checks, file, memVars, resVars, flagVars>>

\* lines 145-146: the virtual bytes, then the physical bytes, from the same cursor
UnpackExtractRaw ==
    /\ pc = "sized"
    /\ Enter("ExtractRaw")
    /\ \E virtual \in {FMemoryArchive_read_bytes(up.archive, up.virtual_buffer)} :
       \E physical \in {FMemoryArchive_read_bytes(virtual.self, up.physical_buffer)} :
          IF virtual.status # "ok"
          THEN /\ Fail(virtual.kind)
               /\ up' = [up EXCEPT !.attempted = {"virtual"}]
          ELSE IF physical.status # "ok"
          THEN /\ Fail(physical.kind)
               /\ up' = [up EXCEPT !.attempted = {"virtual", "physical"},
                                   !.archive = virtual.self,
                                   !.virtual_buffer = virtual.buffer]
          ELSE /\ pc' = "extracted"
               /\ up' = [up EXCEPT !.attempted = {"virtual", "physical"},
                                   !.archive = physical.self,
                                   !.virtual_buffer = virtual.buffer,
                                   !.physical_buffer = physical.buffer]
               /\ UNCHANGED err
    /\ UNCHANGED <<overflow_checks, file, memVars, resVars, flagVars>>

\* lines 148-151
UnpackDecompress ==
    /\ pc = "extracted"
    /\ Enter("Decompress")
    /\ \E virtual_data \in deflate_bytes(up.virtual_buffer),
          physical_data \in deflate_bytes(up.physical_buffer) :
          up' = [up EXCEPT !.virtual_data = virtual_data,
                           !.physical_data = physical_data]
    /\ pc' = "decompressed"
    /\ UNCHANGED <<overflow_checks, file, err, memVars, resVars, flagVars>>

\* lines 153-157: a fresh FMemoryArchive over the physical data, two u64 reads
UnpackSecondaryParse ==
    /\ pc = "decompressed"
    /\ Enter("SecondaryParse")
    /\ \E graphics_archive \in {FMemoryArchive_new(up.physical_data)} :
       \E vft \in {FMemoryArchive_read_ulong(graphics_archive)} :
       \E pages_info_pointer \in {FMemoryArchive_read_ulong(vft.self)} :
          IF vft.status # "ok"
          THEN Fail(vft.kind) /\ UNCHANGED up
          ELSE IF pages_info_pointer.status # "ok"
          THEN Fail(pages_info_pointer.kind) /\ UNCHANGED up
          ELSE /\ pc' = "parsed"
               /\ up' = [up EXCEPT !.vft = vft.result,
                                   !.pages_info_pointer = pages_info_pointer.result]
               /\ UNCHANGED err
    /\ UNCHANGED <<overflow_checks, file, memVars, resVars, flagVars>>

\* lines 158-161: the two values are logged and Ok(()) returned
UnpackDone ==
    /\ pc = "parsed"
    /\ Enter("Done")
    /\ pc' = "done"
    /\ UNCHANGED <<overflow_checks, file, err, up, memVars, resVars, flagVars>>

UnpackNext ==
    \/ UnpackOpen
    \/ UnpackMagicCheck
    \/ UnpackHeaderParse
    \/ UnpackSize
    \/ UnpackExtractRaw
    \/ UnpackDecompress
    \/ UnpackSecondaryParse
    \/ UnpackDone

SpecUnpack == UnpackInit /\ [][UnpackNext]_vars

\* the input is a file and is shorter than the magic and the header
ShortFile == file.kind # "missing" /\ Len(file.bytes) < 20

\* the input begins with the magic bytes 52 53 43 37
MagicBytes == <<82, 83, 67, 55>>
BeginsWithMagic == Len(file.bytes) >= 4 /\ SubSeq(file.bytes, 1, 4) = MagicBytes

\* HeaderParse has completed
HeaderParsed == pc \in {"header_ok", "sized", "extracted", "decompressed", "parsed", "done"}

\* the pipeline has stopped
Stopped == ~ENABLED UnpackNext

\* the total size of the region a flags word describes, in bytes
RegionBytes(flags) == SizeBytes(get_size(ResourceChunkFlags_new(flags)).size)

\* a flags word none of whose sizes overflows u32
NoOverflow(flags) ==
    \A self \in {ResourceChunkFlags_new(flags)} :
       \A buckets_sizes \in {get_buckets_sizes(self)} :
          /\ \A i \in 1..9 : self.base_size * (2 ^ (9 - i)) < U32_PAGES
          /\ ~buckets_sizes.overflow
          /\ ~SumLeft(buckets_sizes.sizes, 9).overflow

\* the two page-flags words as they stand in the file, at offsets 8 and 12
FileVirtualFlags == FromLeBytes(SubSeq(file.bytes, 9, 12))
FilePhysicalFlags == FromLeBytes(SubSeq(file.bytes, 13, 16))

\* C2: an input made of the magic, a header and exactly
\* total_size(virtual_page_flags) + total_size(physical_page_flags) trailing
\* bytes passes HeaderParse and ExtractRaw without a bounds error, the same
\* input with one trailing byte fewer fails in ExtractRaw, and the physical
\* region ExtractRaw reads has length total_size(physical_page_flags).
C2_RegionsSizedFromOwnFlags ==
    (/\ file.kind = "regular"
     /\ Len(file.bytes) >= 20
     /\ BeginsWithMagic
     /\ NoOverflow(FileVirtualFlags)
     /\ NoOverflow(FilePhysicalFlags))
      => \A tail \in {Len(file.bytes) - 20},
            exact \in {RegionBytes(FileVirtualFlags) + RegionBytes(FilePhysicalFlags)} :
            /\ "ExtractRaw" \in Range(trace) /\ pc # "failed"
                 => up.physical_size = RegionBytes(FilePhysicalFlags)
            /\ tail = exact
                 => ~(pc = "failed" /\ trace[Len(trace)] \in {"HeaderParse", "ExtractRaw"})
            /\ tail = exact - 1
                 => (Stopped => pc = "failed" /\ trace[Len(trace)] = "ExtractRaw")

\* C6 as claimed: for an input shorter than 20 bytes the pipeline fails before
\* HeaderParse completes, with an I/O or a bounds error, and never panics.
C6_ShortFileIoOrBounds ==
    ShortFile =>
        /\ ~HeaderParsed
        /\ Stopped => pc = "failed"
        /\ pc = "failed" => err \in {"io", "bounds"}

\* C6 as amended: for an input shorter than 20 bytes the pipeline fails before
\* HeaderParse completes and never panics; it reports an I/O error when the
\* input cannot be read, a format-mismatch error when its first four bytes are
\* not the magic, and a bounds error otherwise (fewer than 4 bytes, or the
\* magic and part of a header).
C6_ShortFileBoundsOrFormat ==
    ShortFile =>
        /\ ~HeaderParsed
        /\ Stopped => pc = "failed"
        /\ pc = "failed" =>
              /\ err = IF file.kind = "unreadable" THEN "io"
                       ELSE IF Len(file.bytes) >= 4 /\ ~BeginsWithMagic THEN "format"
                       ELSE "bounds"
              /\ err = "io" => trace = <<"Open">>
              /\ err = "format" => trace = <<"Open", "MagicCheck">>
              /\ (err = "bounds" /\ BeginsWithMagic)
                    => trace = <<"Open", "MagicCheck", "HeaderParse">>

\* an input of the magic and part of a header has failed in HeaderParse
C6_Witness ==
    /\ ShortFile
    /\ file.kind = "regular"
    /\ BeginsWithMagic
    /\ Len(file.bytes) > 4
    /\ pc = "failed"
    /\ err = "bounds"
    /\ trace = <<"Open", "MagicCheck", "HeaderParse">>

Stages ==
    <<"Open", "MagicCheck", "HeaderParse", "Size", "ExtractRaw", "Decompress",
      "SecondaryParse", "Done">>

\* C9: the stages are entered in the order Open, MagicCheck, HeaderParse,
\* Size, ExtractRaw, Decompress, SecondaryParse, Done, each at most once; after
\* a stage fails nothing more executes (a wrong magic stops before HeaderParse,
\* a failed read of the virtual region stops before the physical region is
\* read); Done is reached only when every stage succeeded; a run that has
\* stopped is in Done or has failed.
C9_StagesInOrder ==
    /\ Len(trace) <= Len(Stages)
    /\ trace = SubSeq(Stages, 1, Len(trace))
    /\ pc = "failed" <=> err # "none"
    /\ pc = "failed" => Stopped
    /\ Stopped => pc \in {"done", "failed"}
    /\ pc = "done" <=> trace = Stages
    /\ (file.kind = "regular" /\ Len(file.bytes) >= 4 /\ ~BeginsWithMagic)
          => /\ "HeaderParse" \notin Range(trace)
             /\ Stopped => (err = "format" /\ trace = <<"Open", "MagicCheck">>)
    /\ (pc = "failed" /\ up.attempted = {"virtual"})
          => /\ trace[Len(trace)] = "ExtractRaw"
             /\ up.archive.cursor.position = 20
             /\ up.physical_buffer = Zeros(up.physical_size)

\* a run in which every stage succeeded
C9_Witness ==
    /\ pc = "done"
    /\ trace = Stages
    /\ err = "none"
    /\ up.attempted = {"virtual", "physical"}

====
